---- MODULE Spec2Model ----
(***************************************************************************)
(* Model of the listener registration protocol of the Hazelcast Node.js    *)
(* client (ListenerService): logical registrations (user keys), their      *)
(* physical registrations per connection, the register invocations in      *)
(* flight and the remote remove requests the service issues.               *)
(*                                                                         *)
(* Scheduling.  The client runs on one thread of control.  The body of a   *)
(* public method or of an event handler runs to completion, so it is one   *)
(* action.  When the response of an invocation arrives, the continuation   *)
(* chain attached to the invocation's promise runs in the microtasks that  *)
(* follow, before any other I/O event is handled; the arrival and its      *)
(* continuations are therefore one action per invocation and outcome.      *)
(***************************************************************************)
EXTENDS Integers, FiniteSets, Sequences, TLC

\* Bounds of the model.
NumConns == 3
MaxKeys == 2
MaxInv == 3
MaxDeregCalls == 1
MaxCount == 5
MaxArgs == 3

Conns == 1..NumConns
Keys == 1..MaxKeys
Ids == 1..MaxInv

\* What encodeRemoveRequest can return: a remove request or null.
CodecAnswer == {"message", "null"}

\* Absent entry of a Map (Map.get returns undefined).
Undefined == 0

VARIABLES
    conn,                 \* connection manager: "new", "active" or "closed" per connection
    nextKey,              \* number of user keys generated so far by UuidUtil.generate
    encodesRemove,        \* per key: what its codec's encodeRemoveRequest has returned
    activeRegistrations,  \* keys of the Map activeRegistrations
    connectionsOnUserKey, \* per key, the inner Map object: connection -> registration
    userKeyInformation,   \* keys of the Map userKeyInformation
    invocations,          \* register invocations by correlation id
    nextId,               \* correlation ids handed out so far
    deferred,             \* per key, the promise returned by registerListener
    removedHandlers,      \* correlation ids passed to removeEventHandler
    removeRequests,       \* per registration, the remote remove requests issued
    deregResults,         \* per key, the results of the user's deregisterListener calls
    pc,                   \* position inside a deregisterListener call run statement by statement
    call,                 \* the key of that call
    removeOutcome,        \* per registration, the outcomes of its settled remove requests
    warnings,             \* registrations whose failed removal was logged with logger.warn
    ring,                 \* the last RingbufferProxy.readMany call and what it did
    codec,                \* the AtomicLongAlterCodec.encodeRequest call in progress
    decoder,              \* the AtomicLongAlterCodec.decodeResponse call in progress
    one,                  \* the last RingbufferProxy.readOne call and what it did
    config,               \* the last ConfigBuilder.build call and what it did
    cp                    \* the last BaseCPProxy call and what it did

\* The state outside the listener service's tables; the actions of the
\* listener service leave it alone.
stack == <<pc, call>>
remote == <<removeOutcome, warnings>>
calls == <<one, config, cp>>
proxies == <<ring, codec, decoder, calls>>
others == <<stack, remote, proxies>>

vars == <<conn, nextKey, encodesRemove, activeRegistrations, connectionsOnUserKey,
          userKeyInformation, invocations, nextId, deferred, removedHandlers,
          removeRequests, deregResults, others>>

\* The listener service's own state.
listener == <<conn, nextKey, encodesRemove, activeRegistrations, connectionsOnUserKey,
              userKeyInformation, invocations, nextId, deferred, removedHandlers,
              removeRequests, deregResults>>

\* No method of the service is in the middle of its body: a method body has
\* no suspension point, so handlers only start between method bodies.
Idle == pc = "idle"

NoInvocation == [key |-> 0, conn |-> 0, kind |-> "none", st |-> "none",
                 via |-> "none", request |-> 0]
NoRequest == [n |-> 0, closed |-> FALSE, via |-> "none", conn |-> 0]

\* The message objects: the register request kept in the key's
\* RegistrationKey (the template) and the copy made for attempt i.
Template(k) == 0 - k
Copy(i) == i
EmptyMap == [c \in Conns |-> Undefined]

ActiveConnections == {c \in Conns : conn[c] = "active"}

\* connection.isAlive()
IsAlive(c) == conn[c] = "active"

\* Position of x in the iteration order of the set S (insertion order is
\* ascending, keys and connections being numbered in order of creation).
Rank(S, x) == Cardinality({y \in S : y < x}) + 1

ListenerInit ==
    /\ conn = [c \in Conns |-> "new"]
    /\ nextKey = 0
    /\ encodesRemove = [k \in Keys |-> "unknown"]
    /\ activeRegistrations = {}
    /\ connectionsOnUserKey = [k \in Keys |-> EmptyMap]
    /\ userKeyInformation = {}
    /\ invocations = [i \in Ids |-> NoInvocation]
    /\ nextId = 0
    /\ deferred = [k \in Keys |-> "none"]
    /\ removedHandlers = {}
    /\ removeRequests = [i \in Ids |-> NoRequest]
    /\ deregResults = [k \in Keys |-> <<>>]

\* How a remote remove request can end: a response, one of the three
\* connectivity errors deregisterListenerOnTarget tests for, or another error.
ConnectivityErrors == {"ClientNotActiveError", "IOError", "TargetDisconnectedError"}
RemoveOutcome == {"ok", "HazelcastError"} \cup ConnectivityErrors

\* The arguments readMany is called with.
Counts == (0 - MaxCount)..MaxCount

NotCalled == [sequence |-> 0, minCount |-> 0, maxCount |-> 0,
              thrown |-> "none", invoked |-> <<>>]

\* encodeRequest has not been called: no message, no frame.
NotEncoding == [pc |-> "ready", returnValueType |-> 0, groupId |-> "none", name |-> "none",
                function |-> "none", retryable |-> "unset", content |-> <<>>, frames |-> <<>>]

\* decodeResponse has not been called.
NotDecoding == [pc |-> "ready", value |-> [low |-> 0, high |-> 0], message |-> <<>>,
                cursor |-> 0, initialFrame |-> <<>>, response |-> "none"]

\* readOne has not been called.
OneNotCalled == [sequence |-> 0, response |-> "none", thrown |-> "none", invoked |-> <<>>,
                 returned |-> "none"]

\* The SSL part of a new ClientConfig: SSL off and no SSL source.
DefaultSSL == [enabled |-> FALSE, sslOptions |-> "null", sslOptionsFactoryConfig |-> <<>>,
               sslOptionsFactoryProperties |-> "null"]

\* No JSON was loaded: loadedJson is undefined.
NoJson == [loaded |-> FALSE, ssl |-> FALSE, enabled |-> FALSE, sslOptions |-> "absent",
           factory |-> FALSE, path |-> "undefined", exportedName |-> "undefined",
           properties |-> "undefined"]

\* build has not been called.
NotBuilt == [called |-> FALSE, json |-> NoJson, thrown |-> "none", cause |-> "none",
             returned |-> FALSE, ssl |-> DefaultSSL]

\* No method of the CP proxy has been called.
CPNotCalled == [method |-> "none", codec |-> "none", codecArguments |-> <<>>,
                encodeRequests |-> <<>>, invoked |-> <<>>, thrown |-> "none"]

OthersInit ==
    /\ pc = "idle"
    /\ call = 0
    /\ removeOutcome = [r \in Ids |-> <<>>]
    /\ warnings = {}
    /\ ring = NotCalled
    /\ codec = NotEncoding
    /\ decoder = NotDecoding
    /\ one = OneNotCalled
    /\ config = NotBuilt
    /\ cp = CPNotCalled

Init == ListenerInit /\ OthersInit

(***************************************************************************)
(* Helpers of the service's private methods.  Each returns the new value   *)
(* of one piece of state.                                                  *)
(***************************************************************************)

\* codec.encodeRemoveRequest(serverRegistrationId).  The codec is an input of
\* registerListener; whether its encodeRemoveRequest returns a message or null
\* is first observed when a registration of the key is removed, and a codec
\* gives the same answer on every call.
CodecAnswers(k, msg) ==
    \/ encodesRemove[k] = "unknown"
    \/ encodesRemove[k] = msg

\* eventRegistration.subscriber: the connection of the invocation that
\* created registration r.
Subscriber(r) == invocations[r].conn

\* A deregisterListenerOnTarget that binds the remove request to the first
\* active connection.
DeregisterListenerOnTarget_FirstActive(reqs, r, msg) ==
    IF msg = "null"
    THEN reqs
    ELSE [reqs EXCEPT ![r] = [n |-> @.n + 1,
                              closed |-> @.closed \/ conn[invocations[r].conn] = "closed",
                              via |-> "invoke",
                              conn |-> IF ActiveConnections = {}
                                       THEN Subscriber(r)
                                       ELSE CHOOSE c \in ActiveConnections :
                                               \A b \in ActiveConnections : c <= b]]

\* deregisterListenerOnTarget(userKey, eventRegistration): the remote remove
\* request, bound to the registration's subscriber connection.  A null
\* message means there is no remote registration: nothing is sent.
DeregisterListenerOnTarget(reqs, r, msg) ==
    IF msg = "null"
    THEN reqs
    ELSE [reqs EXCEPT ![r] = [n |-> @.n + 1,
                              closed |-> @.closed \/ conn[invocations[r].conn] = "closed",
                              via |-> "invoke",
                              conn |-> Subscriber(r)]]

\* The registrations deregisterListener(k) iterates over.
RegistrationsOnUserKey(k) ==
    IF k \in activeRegistrations
    THEN {connectionsOnUserKey[k][c] : c \in Conns} \ {Undefined}
    ELSE {}

\* deregisterListener that removes the key from userKeyInformation only and
\* leaves it in activeRegistrations.
DeregisterListener_KeepsKey(k, msg) ==
    /\ CodecAnswers(k, msg)
    /\ encodesRemove' =
          IF RegistrationsOnUserKey(k) # {}
          THEN [encodesRemove EXCEPT ![k] = msg]
          ELSE encodesRemove
    /\ activeRegistrations' = activeRegistrations
    /\ userKeyInformation' =
          IF k \in activeRegistrations THEN userKeyInformation \ {k} ELSE userKeyInformation
    /\ connectionsOnUserKey' =
          IF k \in activeRegistrations
          THEN [connectionsOnUserKey EXCEPT ![k] = EmptyMap]
          ELSE connectionsOnUserKey
    /\ removedHandlers' = removedHandlers \cup RegistrationsOnUserKey(k)
    /\ removeRequests' =
          [r \in Ids |-> IF r \in RegistrationsOnUserKey(k)
                         THEN DeregisterListenerOnTarget(removeRequests, r, msg)[r]
                         ELSE removeRequests[r]]

\* deregisterListener that issues the remote requests but leaves the local
\* event handlers in place.
DeregisterListener_KeepsHandlers(k, msg) ==
    /\ CodecAnswers(k, msg)
    /\ encodesRemove' =
          IF RegistrationsOnUserKey(k) # {}
          THEN [encodesRemove EXCEPT ![k] = msg]
          ELSE encodesRemove
    /\ activeRegistrations' = activeRegistrations \ {k}
    /\ userKeyInformation' =
          IF k \in activeRegistrations THEN userKeyInformation \ {k} ELSE userKeyInformation
    /\ connectionsOnUserKey' =
          IF k \in activeRegistrations
          THEN [connectionsOnUserKey EXCEPT ![k] = EmptyMap]
          ELSE connectionsOnUserKey
    /\ removedHandlers' = removedHandlers
    /\ removeRequests' =
          [r \in Ids |-> IF r \in RegistrationsOnUserKey(k)
                         THEN DeregisterListenerOnTarget(removeRequests, r, msg)[r]
                         ELSE removeRequests[r]]

\* deregisterListener that leaves the key tracked and its registrations
\* stored.
DeregisterListener_KeepsEntries(k, msg) ==
    /\ CodecAnswers(k, msg)
    /\ encodesRemove' =
          IF RegistrationsOnUserKey(k) # {}
          THEN [encodesRemove EXCEPT ![k] = msg]
          ELSE encodesRemove
    /\ UNCHANGED <<activeRegistrations, userKeyInformation, connectionsOnUserKey>>
    /\ removedHandlers' = removedHandlers \cup RegistrationsOnUserKey(k)
    /\ removeRequests' =
          [r \in Ids |-> IF r \in RegistrationsOnUserKey(k)
                         THEN DeregisterListenerOnTarget(removeRequests, r, msg)[r]
                         ELSE removeRequests[r]]

\* deregisterListener(userKey): the whole method, on the service's state.
\* Returns false on an unknown key; otherwise removes the key from both
\* tables, then empties the inner map, removing each event handler and
\* issuing a remote remove request for each registration.
DeregisterListener(k, msg) ==
    /\ CodecAnswers(k, msg)
    /\ encodesRemove' =
          IF RegistrationsOnUserKey(k) # {}
          THEN [encodesRemove EXCEPT ![k] = msg]
          ELSE encodesRemove
    /\ activeRegistrations' = activeRegistrations \ {k}
    /\ userKeyInformation' =
          IF k \in activeRegistrations THEN userKeyInformation \ {k} ELSE userKeyInformation
    /\ connectionsOnUserKey' =
          IF k \in activeRegistrations
          THEN [connectionsOnUserKey EXCEPT ![k] = EmptyMap]
          ELSE connectionsOnUserKey
    /\ removedHandlers' = removedHandlers \cup RegistrationsOnUserKey(k)
    /\ removeRequests' =
          [r \in Ids |-> IF r \in RegistrationsOnUserKey(k)
                         THEN DeregisterListenerOnTarget(removeRequests, r, msg)[r]
                         ELSE removeRequests[r]]

\* A reregistration pass that does not look at the stored registrations.
KeysToReregister_AllKeys(c) == activeRegistrations

\* The keys reregisterListenersOnConnection(c) issues a register request for:
\* every tracked key whose inner map has no entry for c.
KeysToReregister(c) ==
    {k \in activeRegistrations : connectionsOnUserKey[k][c] = Undefined}

\* invokeRegistrationFromRecord for each of those keys, in iteration order:
\* a copy of the key's register request, bound to c, sent with invokeUrgent.
ReregisterListenersOnConnection(c) ==
    LET ks == KeysToReregister(c) IN
    /\ nextId + Cardinality(ks) <= MaxInv
    /\ invocations' =
          [i \in Ids |->
              IF \E k \in ks : i = nextId + Rank(ks, k)
              THEN [key |-> CHOOSE k \in ks : i = nextId + Rank(ks, k),
                    conn |-> c, kind |-> "reregister", st |-> "sent",
                    via |-> "invokeUrgent", request |-> Copy(i)]
              ELSE invocations[i]]
    /\ nextId' = nextId + Cardinality(ks)

\* removeRegistrationsOnConnection(c): removeEventHandler for every
\* registration stored on c.  The inner maps are not written.
RemoveRegistrationsOnConnection(c) ==
    /\ removedHandlers' = removedHandlers \cup
          ({connectionsOnUserKey[k][c] : k \in activeRegistrations} \ {Undefined})
    /\ UNCHANGED connectionsOnUserKey

(***************************************************************************)
(* Actions.                                                                *)
(***************************************************************************)

\* The connection manager adds connection c and emits connectionAdded(c).
\* Connections are numbered in the order in which they are added.
ConnectionAdded(c) ==
    /\ conn[c] = "new"
    /\ \A b \in Conns : b < c => conn[b] # "new"
    /\ conn' = [conn EXCEPT ![c] = "active"]
    /\ ReregisterListenersOnConnection(c)
    /\ UNCHANGED <<nextKey, encodesRemove, activeRegistrations, connectionsOnUserKey,
                   userKeyInformation, deferred, removedHandlers, removeRequests,
                   deregResults>>
    /\ Idle
    /\ UNCHANGED others

\* connectionAdded(c) is emitted for a connection that is already active.
ConnectionAddedAgain(c) ==
    /\ conn[c] = "active"
    /\ KeysToReregister(c) # {}
    /\ ReregisterListenersOnConnection(c)
    /\ UNCHANGED <<conn, nextKey, encodesRemove, activeRegistrations,
                   connectionsOnUserKey, userKeyInformation, deferred, removedHandlers,
                   removeRequests, deregResults>>
    /\ Idle
    /\ UNCHANGED others

\* Connection c closes; the connection manager emits connectionRemoved(c).
ConnectionRemoved(c) ==
    /\ conn[c] = "active"
    /\ conn' = [conn EXCEPT ![c] = "closed"]
    /\ RemoveRegistrationsOnConnection(c)
    /\ UNCHANGED <<nextKey, encodesRemove, activeRegistrations, userKeyInformation,
                   invocations, nextId, deferred, removeRequests, deregResults>>
    /\ Idle
    /\ UNCHANGED others

\* A registerListener that sends the template request itself on every
\* connection.
RegisterListener_SendsTemplate ==
    LET k == nextKey + 1
        cs == ActiveConnections IN
    /\ nextKey < MaxKeys
    /\ nextId + Cardinality(cs) <= MaxInv
    /\ nextKey' = k
    /\ activeRegistrations' = activeRegistrations \cup {k}
    /\ userKeyInformation' = userKeyInformation \cup {k}
    /\ connectionsOnUserKey' = [connectionsOnUserKey EXCEPT ![k] = EmptyMap]
    /\ invocations' =
          [i \in Ids |->
              IF \E c \in cs : i = nextId + Rank(cs, c)
              THEN [key |-> k, conn |-> CHOOSE c \in cs : i = nextId + Rank(cs, c),
                    kind |-> "register", st |-> "sent",
                    via |-> "invokeUrgent", request |-> Template(k)]
              ELSE invocations[i]]
    /\ nextId' = nextId + Cardinality(cs)
    /\ deferred' = [deferred EXCEPT ![k] = "pending"]
    /\ UNCHANGED <<conn, encodesRemove, removedHandlers, removeRequests, deregResults>>
    /\ Idle
    /\ UNCHANGED others

\* registerListener(codec, handler): a fresh key is entered in both tables
\* and one register request is sent to every connection active at call time.
RegisterListener ==
    LET k == nextKey + 1
        cs == ActiveConnections IN
    /\ nextKey < MaxKeys
    /\ nextId + Cardinality(cs) <= MaxInv
    /\ nextKey' = k
    /\ activeRegistrations' = activeRegistrations \cup {k}
    /\ userKeyInformation' = userKeyInformation \cup {k}
    /\ connectionsOnUserKey' = [connectionsOnUserKey EXCEPT ![k] = EmptyMap]
    /\ invocations' =
          [i \in Ids |->
              IF \E c \in cs : i = nextId + Rank(cs, c)
              THEN [key |-> k, conn |-> CHOOSE c \in cs : i = nextId + Rank(cs, c),
                    kind |-> "register", st |-> "sent",
                    via |-> "invokeUrgent", request |-> Copy(i)]
              ELSE invocations[i]]
    /\ nextId' = nextId + Cardinality(cs)
    /\ deferred' = [deferred EXCEPT ![k] = "pending"]
    /\ UNCHANGED <<conn, encodesRemove, removedHandlers, removeRequests, deregResults>>
    /\ Idle
    /\ UNCHANGED others

\* deferred.resolve / deferred.reject: the first settlement wins.
Settle(d, k, outcome) ==
    IF d[k] = "pending" THEN [d EXCEPT ![k] = outcome] ELSE d

\* The register request i of registerListener succeeds: the registration is
\* put in the inner map captured by the call, then the promise is resolved.
RegisterSucceeded(i) ==
    LET k == invocations[i].key
        c == invocations[i].conn IN
    /\ invocations[i].kind = "register"
    /\ invocations[i].st = "sent"
    /\ conn[c] = "active"
    /\ connectionsOnUserKey' = [connectionsOnUserKey EXCEPT ![k][c] = i]
    /\ deferred' = Settle(deferred, k, "resolved")
    /\ invocations' = [invocations EXCEPT ![i].st = "ok"]
    /\ UNCHANGED <<conn, nextKey, encodesRemove, activeRegistrations,
                   userKeyInformation, nextId, removedHandlers, removeRequests,
                   deregResults>>
    /\ Idle
    /\ UNCHANGED others

\* RegisterFailed without the isAlive test: every failure rolls the key back
\* and rejects the promise.
RegisterFailed_AlwaysRollback(i, msg) ==
    LET k == invocations[i].key
        c == invocations[i].conn IN
    /\ invocations[i].kind = "register"
    /\ invocations[i].st = "sent"
    /\ DeregisterListener(k, msg)
    /\ deferred' = Settle(deferred, k, "rejected")
    /\ invocations' =
          [invocations EXCEPT ![i].st = IF IsAlive(c) THEN "failedAlive" ELSE "failedDead"]
    /\ UNCHANGED <<conn, nextKey, nextId, deregResults>>
    /\ Idle
    /\ UNCHANGED others

\* The register request i of registerListener fails: if its connection is
\* still alive the key is deregistered and the promise rejected; otherwise
\* the failure is dropped.
RegisterFailed(i, msg) ==
    LET k == invocations[i].key
        c == invocations[i].conn IN
    /\ invocations[i].kind = "register"
    /\ invocations[i].st = "sent"
    /\ IF IsAlive(c)
       THEN /\ DeregisterListener(k, msg)
            /\ deferred' = Settle(deferred, k, "rejected")
            /\ invocations' = [invocations EXCEPT ![i].st = "failedAlive"]
       ELSE /\ invocations' = [invocations EXCEPT ![i].st = "failedDead"]
            /\ UNCHANGED <<activeRegistrations, userKeyInformation, connectionsOnUserKey,
                           removedHandlers, removeRequests, deferred, encodesRemove>>
    /\ UNCHANGED <<conn, nextKey, nextId, deregResults>>
    /\ Idle
    /\ UNCHANGED others

\* ReregisterSucceeded without the check of userKeyInformation: the new
\* registration is stored even if its key was deregistered meanwhile.
ReregisterSucceeded_NoRaceCheck(i, msg) ==
    LET k == invocations[i].key
        c == invocations[i].conn IN
    /\ invocations[i].kind = "reregister"
    /\ invocations[i].st = "sent"
    /\ conn[c] = "active"
    /\ connectionsOnUserKey' = [connectionsOnUserKey EXCEPT ![k][c] = i]
    /\ invocations' = [invocations EXCEPT ![i].st = "ok"]
    /\ UNCHANGED <<conn, nextKey, encodesRemove, activeRegistrations,
                   userKeyInformation, nextId, deferred, removedHandlers,
                   removeRequests, deregResults>>
    /\ Idle
    /\ UNCHANGED others

\* The register request i of a reregistration succeeds: if the key was
\* deregistered meanwhile the new registration is removed remotely,
\* otherwise it is stored in the inner map the forEach callback captured.
ReregisterSucceeded(i, msg) ==
    LET k == invocations[i].key
        c == invocations[i].conn IN
    /\ invocations[i].kind = "reregister"
    /\ invocations[i].st = "sent"
    /\ conn[c] = "active"
    /\ IF k \notin userKeyInformation
       THEN /\ CodecAnswers(k, msg)
            /\ encodesRemove' = [encodesRemove EXCEPT ![k] = msg]
            /\ removeRequests' = DeregisterListenerOnTarget(removeRequests, i, msg)
            /\ invocations' = [invocations EXCEPT ![i].st = "rolledBack"]
            /\ UNCHANGED connectionsOnUserKey
       ELSE /\ connectionsOnUserKey' = [connectionsOnUserKey EXCEPT ![k][c] = i]
            /\ invocations' = [invocations EXCEPT ![i].st = "ok"]
            /\ UNCHANGED <<removeRequests, encodesRemove>>
    /\ UNCHANGED <<conn, nextKey, activeRegistrations,
                   userKeyInformation, nextId, deferred, removedHandlers, deregResults>>
    /\ Idle
    /\ UNCHANGED others

\* A failed reregistration that also drops its key from both tables.
ReregisterFailed_DropsKey(i) ==
    /\ invocations[i].kind = "reregister"
    /\ invocations[i].st = "sent"
    /\ invocations' = [invocations EXCEPT ![i].st = "logged"]
    /\ activeRegistrations' = activeRegistrations \ {invocations[i].key}
    /\ userKeyInformation' = userKeyInformation \ {invocations[i].key}
    /\ UNCHANGED <<conn, nextKey, encodesRemove, connectionsOnUserKey, nextId, deferred,
                   removedHandlers, removeRequests, deregResults>>
    /\ Idle
    /\ UNCHANGED others

\* The register request i of a reregistration fails: the error is logged.
ReregisterFailed(i) ==
    /\ invocations[i].kind = "reregister"
    /\ invocations[i].st = "sent"
    /\ invocations' = [invocations EXCEPT ![i].st = "logged"]
    /\ UNCHANGED <<conn, nextKey, encodesRemove, activeRegistrations,
                   connectionsOnUserKey, userKeyInformation, nextId, deferred,
                   removedHandlers, removeRequests, deregResults>>
    /\ Idle
    /\ UNCHANGED others

\* Number of deregisterListener calls the user has made.
RECURSIVE SumLen(_, _)
SumLen(f, n) == IF n = 0 THEN 0 ELSE Len(f[n]) + SumLen(f, n - 1)
DeregCalls == SumLen(deregResults, MaxKeys)

\* The user calls deregisterListener(k) with a key that a resolved
\* registerListener call returned.
UserDeregisterListener(k, msg) ==
    /\ deferred[k] = "resolved"
    /\ DeregCalls < MaxDeregCalls
    /\ DeregisterListener(k, msg)
    /\ deregResults' = [deregResults EXCEPT ![k] = Append(@, k \in activeRegistrations)]
    /\ UNCHANGED <<conn, nextKey, invocations, nextId, deferred>>
    /\ Idle
    /\ UNCHANGED others

Next ==
    \/ \E c \in Conns : ConnectionAdded(c)
    \/ \E c \in Conns : ConnectionRemoved(c)
    \/ RegisterListener
    \/ \E i \in Ids : RegisterSucceeded(i)
    \/ \E i \in Ids, msg \in CodecAnswer : RegisterFailed(i, msg)
    \/ \E i \in Ids, msg \in CodecAnswer : ReregisterSucceeded(i, msg)
    \/ \E i \in Ids : ReregisterFailed(i)
    \/ \E k \in Keys, msg \in CodecAnswer : UserDeregisterListener(k, msg)

\* The listener service driven by a connection manager that emits
\* connectionAdded once per connection.
Spec == Init /\ [][Next]_vars

NextDup == Next \/ \E c \in Conns : ConnectionAddedAgain(c)

\* The same with connectionAdded events repeated for active connections.
SpecDup == Init /\ [][NextDup]_vars

(***************************************************************************)
(* deregisterListener(userKey) called by the user, statement by statement. *)
(* While the call is on the stack (pc # "idle") no handler of the service  *)
(* starts: the body has no await and no callback of its own.               *)
(***************************************************************************)

\* Lines 170-175: look the key up; resolve false when it is not tracked.
DeregStart(k) ==
    /\ Idle
    /\ deferred[k] = "resolved"
    /\ DeregCalls < MaxDeregCalls
    /\ IF k \in activeRegistrations
       THEN /\ pc' = "delete"
            /\ call' = k
            /\ UNCHANGED deregResults
       ELSE /\ deregResults' = [deregResults EXCEPT ![k] = Append(@, FALSE)]
            /\ UNCHANGED stack
    /\ UNCHANGED <<remote, proxies>>
    /\ UNCHANGED <<conn, nextKey, encodesRemove, activeRegistrations, connectionsOnUserKey,
                   userKeyInformation, invocations, nextId, deferred, removedHandlers,
                   removeRequests>>

\* A deregisterListener that goes on to the forEach with the key still in
\* both tables.
DeregDeleteKeys_Skipped ==
    /\ pc = "delete"
    /\ pc' = "forEach"
    /\ UNCHANGED <<conn, nextKey, encodesRemove, activeRegistrations, connectionsOnUserKey,
                   userKeyInformation, invocations, nextId, deferred, removedHandlers,
                   removeRequests, deregResults, call, remote, proxies>>

\* A deregisterListener that deletes the key from activeRegistrations only.
DeregDeleteKeys_OneTable ==
    /\ pc = "delete"
    /\ activeRegistrations' = activeRegistrations \ {call}
    /\ pc' = "forEach"
    /\ UNCHANGED <<conn, nextKey, encodesRemove, connectionsOnUserKey, userKeyInformation,
                   invocations, nextId, deferred, removedHandlers, removeRequests,
                   deregResults, call, remote, proxies>>

\* Lines 177-178: delete the key from both tables.
DeregDeleteKeys ==
    /\ pc = "delete"
    /\ activeRegistrations' = activeRegistrations \ {call}
    /\ userKeyInformation' = userKeyInformation \ {call}
    /\ pc' = "forEach"
    /\ UNCHANGED <<conn, nextKey, encodesRemove, connectionsOnUserKey, invocations, nextId,
                   deferred, removedHandlers, removeRequests, deregResults, call, remote, proxies>>

\* Lines 180-186: one iteration of the forEach over the key's stored
\* registrations.
DeregForEach(c, msg) ==
    /\ pc = "forEach"
    /\ connectionsOnUserKey[call][c] # Undefined
    /\ CodecAnswers(call, msg)
    /\ LET r == connectionsOnUserKey[call][c] IN
       /\ connectionsOnUserKey' = [connectionsOnUserKey EXCEPT ![call][c] = Undefined]
       /\ removedHandlers' = removedHandlers \cup {r}
       /\ removeRequests' = DeregisterListenerOnTarget(removeRequests, r, msg)
    /\ encodesRemove' = [encodesRemove EXCEPT ![call] = msg]
    /\ UNCHANGED <<conn, nextKey, activeRegistrations, userKeyInformation, invocations,
                   nextId, deferred, deregResults, others>>

\* Line 188: the forEach is over; resolve true.
DeregResolve ==
    /\ pc = "forEach"
    /\ \A c \in Conns : connectionsOnUserKey[call][c] = Undefined
    /\ deregResults' = [deregResults EXCEPT ![call] = Append(@, TRUE)]
    /\ pc' = "idle"
    /\ call' = 0
    /\ UNCHANGED <<remote, proxies>>
    /\ UNCHANGED <<conn, nextKey, encodesRemove, activeRegistrations, connectionsOnUserKey,
                   userKeyInformation, invocations, nextId, deferred, removedHandlers,
                   removeRequests>>

NextSteps ==
    \/ \E c \in Conns : ConnectionAdded(c)
    \/ \E c \in Conns : ConnectionRemoved(c)
    \/ RegisterListener
    \/ \E i \in Ids : RegisterSucceeded(i)
    \/ \E i \in Ids, msg \in CodecAnswer : RegisterFailed(i, msg)
    \/ \E i \in Ids, msg \in CodecAnswer : ReregisterSucceeded(i, msg)
    \/ \E i \in Ids : ReregisterFailed(i)
    \/ \E k \in Keys : DeregStart(k)
    \/ DeregDeleteKeys
    \/ \E c \in Conns, msg \in CodecAnswer : DeregForEach(c, msg)
    \/ DeregResolve

\* The listener service with the user's deregisterListener calls run
\* statement by statement.
SpecSteps == Init /\ [][NextSteps]_vars

(***************************************************************************)
(* The remote remove requests settle.                                      *)
(***************************************************************************)

\* A catch that logs every failure of the remove request.
RemoveRequestSettled_WarnsAll(r, outcome) ==
    /\ Idle
    /\ Len(removeOutcome[r]) < removeRequests[r].n
    /\ outcome = "ok" => ~removeRequests[r].closed
    /\ removeOutcome' = [removeOutcome EXCEPT ![r] = Append(@, outcome)]
    /\ warnings' = IF outcome = "ok" THEN warnings ELSE warnings \cup {r}
    /\ UNCHANGED <<conn, nextKey, encodesRemove, activeRegistrations, connectionsOnUserKey,
                   userKeyInformation, invocations, nextId, deferred, removedHandlers,
                   removeRequests, deregResults, stack, proxies>>

\* deregisterListenerOnTarget, lines 205-214: the remove invocation of
\* registration r settles.  Nothing is chained on success; the catch returns
\* on a connectivity error and logs a warning on any other error.
RemoveRequestSettled(r, outcome) ==
    /\ Idle
    /\ Len(removeOutcome[r]) < removeRequests[r].n
    /\ outcome = "ok" => ~removeRequests[r].closed
    /\ removeOutcome' = [removeOutcome EXCEPT ![r] = Append(@, outcome)]
    /\ warnings' = IF outcome \in ConnectivityErrors \cup {"ok"}
                   THEN warnings
                   ELSE warnings \cup {r}
    /\ UNCHANGED <<conn, nextKey, encodesRemove, activeRegistrations, connectionsOnUserKey,
                   userKeyInformation, invocations, nextId, deferred, removedHandlers,
                   removeRequests, deregResults, stack, proxies>>

NextRemove ==
    \/ Next
    \/ \E r \in Ids, outcome \in RemoveOutcome : RemoveRequestSettled(r, outcome)

\* The listener service together with the responses to its remote remove
\* requests.
SpecRemove == Init /\ [][NextRemove]_vars

(***************************************************************************)
(* RingbufferProxy.readMany                                                *)
(***************************************************************************)

\* Long.fromValue(sequence).lessThan(0), for an integer sequence.
LessThanZero(sequence) == sequence < 0

\* A readMany that also rejects minCount = maxCount.
ReadManyOutcome_Strict(sequence, minCount, maxCount) ==
    IF LessThanZero(sequence)
    THEN [thrown |-> "RangeError", invoked |-> <<>>]
    ELSE IF minCount < 0
    THEN [thrown |-> "RangeError", invoked |-> <<>>]
    ELSE IF minCount >= maxCount
    THEN [thrown |-> "RangeError", invoked |-> <<>>]
    ELSE [thrown |-> "none",
          invoked |-> <<[codec |-> "RingbufferReadManyCodec", sequence |-> sequence,
                         minCount |-> minCount, maxCount |-> maxCount]>>]

\* readMany(sequence, minCount, maxCount): the three range checks in the
\* order of the code, then one encodeInvoke of RingbufferReadManyCodec.
ReadManyOutcome(sequence, minCount, maxCount) ==
    IF LessThanZero(sequence)
    THEN [thrown |-> "RangeError", invoked |-> <<>>]
    ELSE IF minCount < 0
    THEN [thrown |-> "RangeError", invoked |-> <<>>]
    ELSE IF minCount > maxCount
    THEN [thrown |-> "RangeError", invoked |-> <<>>]
    ELSE [thrown |-> "none",
          invoked |-> <<[codec |-> "RingbufferReadManyCodec", sequence |-> sequence,
                         minCount |-> minCount, maxCount |-> maxCount]>>]

\* A call of readMany with the default filter.  The proxy keeps nothing
\* between calls: ring and one describe the latest call on it.
ReadMany(sequence, minCount, maxCount) ==
    /\ ring' = [sequence |-> sequence, minCount |-> minCount, maxCount |-> maxCount,
                thrown |-> ReadManyOutcome(sequence, minCount, maxCount).thrown,
                invoked |-> ReadManyOutcome(sequence, minCount, maxCount).invoked]
    /\ one' = OneNotCalled
    /\ UNCHANGED <<conn, nextKey, encodesRemove, activeRegistrations, connectionsOnUserKey,
                   userKeyInformation, invocations, nextId, deferred, removedHandlers,
                   removeRequests, deregResults, stack, remote, codec, decoder, config, cp>>

\* The serialized items a read-one response can carry, and what
\* serializationService.toObject makes of each.
Datas == {"data:1", "data:2", "data:null"}
ToObject(data) ==
    CASE data = "data:1" -> "item 1"
      [] data = "data:2" -> "item 2"
      [] data = "data:null" -> "null"

\* How the read-one invocation ends: a response message carrying an item,
\* or a failure.
ReadOneResponses == Datas \cup {"failed"}

\* A readOne that accepts only positive sequences.
ReadOneOutcome_Positive(sequence, response) ==
    IF sequence <= 0
    THEN [thrown |-> "RangeError", invoked |-> <<>>, returned |-> "none"]
    ELSE [thrown |-> "none",
          invoked |-> <<[codec |-> "RingbufferReadOneCodec", sequence |-> sequence]>>,
          returned |-> IF response = "failed" THEN "rejected" ELSE ToObject(response)]

\* readOne(sequence): the range check, then one encodeInvoke of
\* RingbufferReadOneCodec whose response is decoded and passed through
\* toObject; a failed invocation rejects the returned promise.
ReadOneOutcome(sequence, response) ==
    IF LessThanZero(sequence)
    THEN [thrown |-> "RangeError", invoked |-> <<>>, returned |-> "none"]
    ELSE [thrown |-> "none",
          invoked |-> <<[codec |-> "RingbufferReadOneCodec", sequence |-> sequence]>>,
          returned |-> IF response = "failed" THEN "rejected" ELSE ToObject(response)]

\* A call of readOne and the settling of its invocation.
ReadOne(sequence, response) ==
    /\ one' = [sequence |-> sequence,
               response |-> response,
               thrown |-> ReadOneOutcome(sequence, response).thrown,
               invoked |-> ReadOneOutcome(sequence, response).invoked,
               returned |-> ReadOneOutcome(sequence, response).returned]
    /\ ring' = NotCalled
    /\ UNCHANGED <<listener, stack, remote, codec, decoder, config, cp>>

NextRing ==
    \/ \E sequence, minCount, maxCount \in Counts : ReadMany(sequence, minCount, maxCount)
    \/ \E sequence \in Counts, response \in ReadOneResponses : ReadOne(sequence, response)

\* A ringbuffer proxy whose readMany and readOne are called with every
\* combination of small arguments.
SpecRing == Init /\ [][NextRing]_vars

(***************************************************************************)
(* AtomicLongAlterCodec.encodeRequest, statement by statement, on the      *)
(* bytes of the initial frame.                                             *)
(***************************************************************************)

\* The header layout of ClientMessage and the sizes of BitsUtil.
TYPE_FIELD_OFFSET == 0
PARTITION_ID_OFFSET == 12
INT_SIZE_IN_BYTES == 4

REQUEST_MESSAGE_TYPE == 590336

\* An encoder that writes returnValueType where the partition id goes.
REQUEST_RETURN_VALUE_TYPE_OFFSET_OnPartitionId == PARTITION_ID_OFFSET

REQUEST_RETURN_VALUE_TYPE_OFFSET == PARTITION_ID_OFFSET + INT_SIZE_IN_BYTES

REQUEST_INITIAL_FRAME_SIZE == REQUEST_RETURN_VALUE_TYPE_OFFSET + INT_SIZE_IN_BYTES

\* The inputs of encodeRequest.
ReturnValueTypes == {0 - 2147483647 - 1, 0 - 1, 0, 1, 258, 2147483647}
GroupIds == {"default"}
Names == {"counter", "counter@group"}
Functions == {"increment", "negate"}

\* What a newly allocated frame buffer may hold in every byte.
Fills == {0, 255}

\* Byte n (0 is the least significant) of the 32-bit two's complement of v.
ByteOf(v, n) ==
    IF v >= 0
    THEN (v \div (256 ^ n)) % 256
    ELSE 255 - (((0 - (v + 1)) \div (256 ^ n)) % 256)

\* FixSizedTypesCodec.encodeInt(buffer, offset, value): four bytes, little
\* endian, at buffer[offset .. offset + 3].
EncodeInt(buffer, offset, value) ==
    [i \in 1..Len(buffer) |->
        IF (i - 1) \in offset..(offset + INT_SIZE_IN_BYTES - 1)
        THEN ByteOf(value, (i - 1) - offset)
        ELSE buffer[i]]

\* FixSizedTypesCodec.decodeInt(buffer, offset): the signed 32-bit value of
\* the four bytes at buffer[offset .. offset + 3].
DecodeInt(buffer, offset) ==
    LET b(n) == buffer[offset + n + 1] IN
    IF b(3) >= 128
    THEN 0 - ((255 - b(0)) + 256 * (255 - b(1)) + 65536 * (255 - b(2))
                 + 16777216 * (255 - b(3))) - 1
    ELSE b(0) + 256 * b(1) + 65536 * b(2) + 16777216 * b(3)

\* Line 45: ClientMessage.createForEncode().
EncodeRequest(groupId, name, function, returnValueType) ==
    /\ codec.pc \in {"ready", "returned"}
    /\ codec' = [pc |-> "setRetryable", returnValueType |-> returnValueType,
                 groupId |-> groupId, name |-> name, function |-> function,
                 retryable |-> "unset", content |-> <<>>, frames |-> <<>>]
    /\ UNCHANGED <<conn, nextKey, encodesRemove, activeRegistrations, connectionsOnUserKey,
                   userKeyInformation, invocations, nextId, deferred, removedHandlers,
                   removeRequests, deregResults, stack, remote, ring, decoder, calls>>

\* The encoder after one statement: at position `to`, with the message's
\* retryable flag, initial frame content and frame list as given.
After(to, retryable, content, frames) ==
    [codec EXCEPT !.pc = to, !.retryable = retryable, !.content = content, !.frames = frames]

\* Line 46: clientMessage.setRetryable(false).
SetRetryable ==
    /\ codec.pc = "setRetryable"
    /\ codec' = After("createInitialFrame", FALSE, codec.content, codec.frames)
    /\ UNCHANGED <<listener, stack, remote, ring, decoder, calls>>

\* Line 48: Frame.createInitialFrame(REQUEST_INITIAL_FRAME_SIZE).
CreateInitialFrame(fill) ==
    /\ codec.pc = "createInitialFrame"
    /\ codec' = After("encodeInt", codec.retryable,
                       [i \in 1..REQUEST_INITIAL_FRAME_SIZE |-> fill], codec.frames)
    /\ UNCHANGED <<listener, stack, remote, ring, decoder, calls>>

\* Line 49: encodeInt(initialFrame.content, REQUEST_RETURN_VALUE_TYPE_OFFSET, returnValueType).
EncodeReturnValueType ==
    /\ codec.pc = "encodeInt"
    /\ codec' = After("addFrame", codec.retryable,
                       EncodeInt(codec.content, REQUEST_RETURN_VALUE_TYPE_OFFSET, codec.returnValueType),
                       codec.frames)
    /\ UNCHANGED <<listener, stack, remote, ring, decoder, calls>>

\* Line 50: clientMessage.addFrame(initialFrame).
AddInitialFrame ==
    /\ codec.pc = "addFrame"
    /\ codec' = After("setMessageType", codec.retryable, codec.content,
                       Append(codec.frames, [frame |-> "initialFrame", of |-> "message"]))
    /\ UNCHANGED <<listener, stack, remote, ring, decoder, calls>>

\* Line 51: clientMessage.setMessageType(REQUEST_MESSAGE_TYPE), an int written
\* into the first frame of the message.
SetMessageType ==
    /\ codec.pc = "setMessageType"
    /\ codec.frames # <<>>
    /\ codec' = After("setPartitionId", codec.retryable,
                       EncodeInt(codec.content, TYPE_FIELD_OFFSET, REQUEST_MESSAGE_TYPE),
                       codec.frames)
    /\ UNCHANGED <<listener, stack, remote, ring, decoder, calls>>

\* Line 52: clientMessage.setPartitionId(-1), an int written into the first
\* frame of the message.
SetPartitionId ==
    /\ codec.pc = "setPartitionId"
    /\ codec.frames # <<>>
    /\ codec' = After("encodeGroupId", codec.retryable,
                       EncodeInt(codec.content, PARTITION_ID_OFFSET, 0 - 1), codec.frames)
    /\ UNCHANGED <<listener, stack, remote, ring, decoder, calls>>

\* Line 54: RaftGroupIdCodec.encode(clientMessage, groupId).
EncodeGroupId ==
    /\ codec.pc = "encodeGroupId"
    /\ codec' = After("encodeName", codec.retryable, codec.content,
                       Append(codec.frames, [frame |-> "groupId", of |-> codec.groupId]))
    /\ UNCHANGED <<listener, stack, remote, ring, decoder, calls>>

\* Line 55: StringCodec.encode(clientMessage, name).
EncodeName ==
    /\ codec.pc = "encodeName"
    /\ codec' = After("encodeFunction", codec.retryable, codec.content,
                       Append(codec.frames, [frame |-> "name", of |-> codec.name]))
    /\ UNCHANGED <<listener, stack, remote, ring, decoder, calls>>

\* Lines 56-57: DataCodec.encode(clientMessage, _function); return.
EncodeFunction ==
    /\ codec.pc = "encodeFunction"
    /\ codec' = After("returned", codec.retryable, codec.content,
                       Append(codec.frames, [frame |-> "function", of |-> codec.function]))
    /\ UNCHANGED <<listener, stack, remote, ring, decoder, calls>>

\* The response header of ClientMessage and the size of a byte.
RESPONSE_BACKUP_ACKS_OFFSET == 12
BYTE_SIZE_IN_BYTES == 1

\* A decoder that reads the response where the backup acks byte is.
RESPONSE_RESPONSE_OFFSET_OnBackupAcks == RESPONSE_BACKUP_ACKS_OFFSET

RESPONSE_RESPONSE_OFFSET == RESPONSE_BACKUP_ACKS_OFFSET + BYTE_SIZE_IN_BYTES

\* The longs a response can carry, as the two 32-bit halves of Long.
ResponseValues ==
    {[low |-> 0, high |-> 0], [low |-> 1, high |-> 0], [low |-> 0 - 1, high |-> 0 - 1],
     [low |-> 258, high |-> 1], [low |-> 0, high |-> 0 - 2147483647 - 1]}
BackupAcks == {0, 1}
ExtraFrames == {0, 1}

\* FixSizedTypesCodec.decodeLong(buffer, offset): eight bytes, little endian,
\* as the low and high halves of a Long.
DecodeLong(buffer, offset) ==
    [low |-> DecodeInt(buffer, offset), high |-> DecodeInt(buffer, offset + INT_SIZE_IN_BYTES)]

\* The initial frame of a response as the member sends it: the backup acks
\* byte, then the response long.
ResponseFrame(value, acks, fill) ==
    LET blank == [i \in 1..(RESPONSE_BACKUP_ACKS_OFFSET + 1 + 8) |->
                     IF i - 1 = RESPONSE_BACKUP_ACKS_OFFSET THEN acks ELSE fill]
        withLow == EncodeInt(blank, RESPONSE_BACKUP_ACKS_OFFSET + 1, value.low) IN
    EncodeInt(withLow, RESPONSE_BACKUP_ACKS_OFFSET + 1 + INT_SIZE_IN_BYTES, value.high)

\* decodeResponse(clientMessage) is called with a response message: its
\* initial frame, followed by `extra` further frames.
DecodeResponse(value, acks, fill, extra) ==
    /\ decoder.pc \in {"ready", "returned"}
    /\ decoder' = [pc |-> "nextFrame", value |-> value,
                   message |-> <<ResponseFrame(value, acks, fill)>> \o
                               [i \in 1..extra |-> <<fill>>],
                   cursor |-> 0, initialFrame |-> <<>>, response |-> "none"]
    /\ UNCHANGED <<listener, stack, remote, ring, codec, calls>>

\* Line 61: const initialFrame = clientMessage.nextFrame().
NextFrame ==
    /\ decoder.pc = "nextFrame"
    /\ decoder.cursor < Len(decoder.message)
    /\ decoder' = [decoder EXCEPT !.pc = "decodeLong",
                                  !.cursor = @ + 1,
                                  !.initialFrame = decoder.message[decoder.cursor + 1]]
    /\ UNCHANGED <<listener, stack, remote, ring, codec, calls>>

\* Lines 63-66: response.response = decodeLong(initialFrame.content,
\* RESPONSE_RESPONSE_OFFSET); return response.
DecodeResponseLong ==
    /\ decoder.pc = "decodeLong"
    /\ decoder' = [decoder EXCEPT !.pc = "returned",
                                  !.response = DecodeLong(decoder.initialFrame,
                                                          RESPONSE_RESPONSE_OFFSET)]
    /\ UNCHANGED <<listener, stack, remote, ring, codec, calls>>

NextCodec ==
    \/ \E groupId \in GroupIds, name \in Names, function \in Functions,
          returnValueType \in ReturnValueTypes :
              EncodeRequest(groupId, name, function, returnValueType)
    \/ SetRetryable
    \/ \E fill \in Fills : CreateInitialFrame(fill)
    \/ EncodeReturnValueType
    \/ AddInitialFrame
    \/ SetMessageType
    \/ SetPartitionId
    \/ EncodeGroupId
    \/ EncodeName
    \/ EncodeFunction
    \/ \E value \in ResponseValues, acks \in BackupAcks, fill \in Fills, extra \in ExtraFrames :
          DecodeResponse(value, acks, fill, extra)
    \/ NextFrame
    \/ DecodeResponseLong

\* Calls of AtomicLongAlterCodec.encodeRequest and decodeResponse, one after
\* the other.
SpecCodec == Init /\ [][NextCodec]_vars

(***************************************************************************)
(* ConfigBuilder.build on a loaded JSON with at most a network.ssl section *)
(***************************************************************************)

\* The loaded JSON documents: none, one without an SSL section, and the SSL
\* sections with a boolean `enabled`, with or without sslOptions and with or
\* without a factory object (path, exportedName, properties).
Jsons ==
    {NoJson, [NoJson EXCEPT !.loaded = TRUE]} \cup
    {[loaded |-> TRUE, ssl |-> TRUE, enabled |-> e, sslOptions |-> o, factory |-> FALSE,
      path |-> "undefined", exportedName |-> "undefined", properties |-> "undefined"] :
        e \in BOOLEAN, o \in {"absent", "{}", "{ca}"}} \cup
    {[loaded |-> TRUE, ssl |-> TRUE, enabled |-> e, sslOptions |-> o, factory |-> TRUE,
      path |-> q, exportedName |-> n, properties |-> r] :
        e \in BOOLEAN, o \in {"absent", "{}", "{ca}"},
        q \in {"undefined", "null", "", "./factory.js"},
        n \in {"undefined", "BasicSSLOptionsFactory", "OtherFactory"},
        r \in {"undefined", "{a}"}}

\* parseProperties(jsonObject): a copy of the object's own keys; no key for
\* undefined.
ParseProperties(properties) == IF properties = "undefined" THEN "{}" ELSE properties

\* parseImportConfig(jsonObject): the path and the exportedName.
ParseImportConfig(json) == <<json.path, json.exportedName>>

\* A handleSSL that accepts sslOptions together with a factory.
HandleSSL_AllowsBoth(json, ssl) ==
    LET enabled == [ssl EXCEPT !.enabled = json.enabled] IN
    IF json.sslOptions # "absent"
    THEN [thrown |-> "none", ssl |-> [enabled EXCEPT !.sslOptions = json.sslOptions]]
    ELSE IF json.factory
    THEN IF json.path \in {"undefined", "null"} /\ json.exportedName # "BasicSSLOptionsFactory"
         THEN [thrown |-> "RangeError", ssl |-> enabled]
         ELSE [thrown |-> "none",
               ssl |-> [enabled EXCEPT
                           !.sslOptionsFactoryConfig = ParseImportConfig(json),
                           !.sslOptionsFactoryProperties = ParseProperties(json.properties)]]
    ELSE [thrown |-> "none", ssl |-> enabled]

\* handleSSL(jsonObject) on the SSL part of clientConfig: what it throws and
\* what it leaves in the configuration.
HandleSSL(json, ssl) ==
    LET enabled == [ssl EXCEPT !.enabled = json.enabled] IN
    IF json.sslOptions # "absent"
    THEN IF json.factory
         THEN [thrown |-> "RangeError", ssl |-> enabled]
         ELSE [thrown |-> "none", ssl |-> [enabled EXCEPT !.sslOptions = json.sslOptions]]
    ELSE IF json.factory
    THEN IF json.path \in {"undefined", "null"} /\ json.exportedName # "BasicSSLOptionsFactory"
         THEN [thrown |-> "RangeError", ssl |-> enabled]
         ELSE [thrown |-> "none",
               ssl |-> [enabled EXCEPT
                           !.sslOptionsFactoryConfig = ParseImportConfig(json),
                           !.sslOptionsFactoryProperties = ParseProperties(json.properties)]]
    ELSE [thrown |-> "none", ssl |-> enabled]

\* handleConfig(loadedJson): the for-in loops visit no key of undefined and
\* reach handleSSL through network.ssl.
HandleConfig(json) ==
    IF json.loaded /\ json.ssl
    THEN HandleSSL(json, DefaultSSL)
    ELSE [thrown |-> "none", ssl |-> DefaultSSL]

\* build() of a new ConfigBuilder whose loadedJson is json: clientConfig is
\* returned, or a HazelcastError wrapping what handleConfig threw.
Build(json) ==
    /\ config' = [called |-> TRUE, json |-> json,
                  thrown |-> IF HandleConfig(json).thrown = "none"
                             THEN "none"
                             ELSE "HazelcastError",
                  cause |-> HandleConfig(json).thrown,
                  returned |-> HandleConfig(json).thrown = "none",
                  ssl |-> HandleConfig(json).ssl]
    /\ UNCHANGED <<listener, stack, remote, ring, codec, decoder, one, cp>>

NextConfig == \E json \in Jsons : Build(json)

\* Configuration builders, each loaded with one JSON document and built.
SpecConfig == Init /\ [][NextConfig]_vars

(***************************************************************************)
(* BaseCPProxy: encodeInvokeOnRandomTarget and getPartitionKey             *)
(***************************************************************************)

\* The codecs a CP proxy passes, and the values of their arguments.
CPCodecs == {"AtomicLongAlterCodec", "AtomicLongGetCodec"}
CPArgumentValues == {"groupId", "name", "function"}

\* The argument lists of a call: up to MaxArgs values.
RECURSIVE ArgumentLists(_)
ArgumentLists(n) ==
    IF n = 0
    THEN {<<>>}
    ELSE ArgumentLists(n - 1) \cup
         {Append(a, v) : a \in {b \in ArgumentLists(n - 1) : Len(b) = n - 1},
                         v \in CPArgumentValues}

\* codec.encodeRequest(...codecArguments) returns a message or throws.
EncodeOutcomes == {"message", "throws"}

\* The client message a codec makes of its arguments.
ClientMessageOf(codec_, codecArguments) == <<codec_, codecArguments>>

\* An encodeInvokeOnRandomTarget that submits the invocation although
\* encodeRequest threw.
EncodeInvokeOutcome_InvokesAnyway(codec_, codecArguments, outcome) ==
    [method |-> "encodeInvokeOnRandomTarget", codec |-> codec_,
     codecArguments |-> codecArguments,
     encodeRequests |-> <<<<codec_, codecArguments>>>>,
     invoked |-> <<[via |-> "invokeOnRandomTarget",
                    message |-> ClientMessageOf(codec_, codecArguments)]>>,
     thrown |-> IF outcome = "throws" THEN "encodeRequest" ELSE "none"]

\* encodeInvokeOnRandomTarget(codec, ...codecArguments): the calls it makes
\* on the codec and on the invocation service, and what it throws.
EncodeInvokeOutcome(codec_, codecArguments, outcome) ==
    [method |-> "encodeInvokeOnRandomTarget", codec |-> codec_,
     codecArguments |-> codecArguments,
     encodeRequests |-> <<<<codec_, codecArguments>>>>,
     invoked |-> IF outcome = "throws"
                 THEN <<>>
                 ELSE <<[via |-> "invokeOnRandomTarget",
                         message |-> ClientMessageOf(codec_, codecArguments)]>>,
     thrown |-> IF outcome = "throws" THEN "encodeRequest" ELSE "none"]

EncodeInvokeOnRandomTarget(codec_, codecArguments, outcome) ==
    /\ cp' = EncodeInvokeOutcome(codec_, codecArguments, outcome)
    /\ UNCHANGED <<listener, stack, remote, ring, codec, decoder, one, config>>

\* getPartitionKey(): throws, calls nothing.
GetPartitionKey ==
    /\ cp' = [CPNotCalled EXCEPT !.method = "getPartitionKey",
                                 !.thrown = "UnsupportedOperationError"]
    /\ UNCHANGED <<listener, stack, remote, ring, codec, decoder, one, config>>

NextCP ==
    \/ \E codec_ \in CPCodecs, codecArguments \in ArgumentLists(MaxArgs),
          outcome \in EncodeOutcomes :
          EncodeInvokeOnRandomTarget(codec_, codecArguments, outcome)
    \/ GetPartitionKey

\* Calls on one CP proxy, each recorded apart from the ones before it.
SpecCP == Init /\ [][NextCP]_vars

TypeOK ==
    /\ conn \in [Conns -> {"new", "active", "closed"}]
    /\ nextKey \in 0..MaxKeys
    /\ nextId \in 0..MaxInv
    /\ activeRegistrations \subseteq 1..nextKey
    /\ userKeyInformation \subseteq 1..nextKey
    /\ \A i \in Ids : (invocations[i].kind = "none") <=> (i > nextId)

(***************************************************************************)
(* Vocabulary of the properties.                                           *)
(***************************************************************************)

\* No invocation is waiting for its response.
Settled == \A i \in Ids : invocations[i].st # "sent"

\* No register request has failed.
NoFailure == \A i \in Ids : invocations[i].st \notin {"failedAlive", "failedDead", "logged"}

\* The connections on which a registration is stored in the inner map of k.
StoredOn(k) == {c \in Conns : connectionsOnUserKey[k][c] # Undefined}

\* The register requests registerListener issued for key k.
Attempts(k) == {i \in Ids : invocations[i].kind = "register" /\ invocations[i].key = k}

\* Register request i succeeded: the server holds a registration for it.
Succeeded(i) == invocations[i].st \in {"ok", "rolledBack"}

\* A remote remove request was issued for registration i, or its codec has
\* none to issue (encodeRemoveRequest returned null).
RemovalAttempted(i) ==
    \/ removeRequests[i].n >= 1
    \/ encodesRemove[invocations[i].key] = "null"

\* C1: once all invocations have settled (and none failed), the number of
\* stored registrations of a tracked key equals the number of active
\* connections.
CE_C1_StoredEqualsActive ==
    (Settled /\ NoFailure) =>
        \A k \in activeRegistrations :
            Cardinality(StoredOn(k)) = Cardinality(ActiveConnections)

\* C2: handling connectionRemoved(c) drops the record (key, c) of every
\* tracked key that has one, calls removeEventHandler with its correlation
\* id and leaves the records of other connections unchanged.
CE_C2_RecordDropped ==
    [][\A c \in Conns :
          (conn[c] = "active" /\ conn'[c] = "closed") =>
              \A k \in activeRegistrations :
                  connectionsOnUserKey[k][c] # Undefined =>
                      /\ connectionsOnUserKey'[k][c] = Undefined
                      /\ connectionsOnUserKey[k][c] \in removedHandlers'
                      /\ \A b \in Conns \ {c} :
                            connectionsOnUserKey'[k][b] = connectionsOnUserKey[k][b]]_vars

\* C3: no remote deregister request is ever issued on a connection that has
\* been removed.
CE_C3_NoRequestOnRemoved ==
    \A r \in Ids : removeRequests[r].n >= 1 => ~removeRequests[r].closed

\* C4 as stated: a reregistration that succeeds after its key was
\* deregistered is not stored and a remote remove request is issued for it.
CE_C4_RemoveRequestIssued ==
    \A i \in Ids :
        (invocations[i].kind = "reregister" /\ Succeeded(i)
            /\ invocations[i].key \notin userKeyInformation) =>
                /\ connectionsOnUserKey[invocations[i].key][invocations[i].conn] # i
                /\ removeRequests[i].n >= 1

\* C4 as amended: a reregistration that succeeds after its key was
\* deregistered is not stored, and a remote remove request is issued for it
\* unless the key's codec encodes no remove request; no successful
\* reregistration of a deregistered key is left without that removal.
T_C4_ReregistrationRolledBack ==
    \A i \in Ids :
        (invocations[i].kind = "reregister" /\ Succeeded(i)
            /\ invocations[i].key \notin userKeyInformation) =>
                /\ connectionsOnUserKey[invocations[i].key][invocations[i].conn] # i
                /\ RemovalAttempted(i)

\* A reregistration completed after deregisterListener removed its key, and
\* a remote remove request was sent for it.
W_C4_RaceRolledBack ==
    \E i \in Ids :
        /\ invocations[i].st = "rolledBack"
        /\ invocations[i].key \notin userKeyInformation
        /\ removeRequests[i].n = 1
        /\ connectionsOnUserKey[invocations[i].key][invocations[i].conn] = Undefined

\* C5: every register request, also one issued by registerListener itself,
\* that succeeds after its key was deregistered is not kept as a stored
\* registration and is removed remotely.
CE_C5_AttemptRolledBack ==
    \A i \in Ids :
        (Succeeded(i) /\ invocations[i].key \notin activeRegistrations) =>
            /\ connectionsOnUserKey[invocations[i].key][invocations[i].conn] # i
            /\ RemovalAttempted(i)

\* The live registrations of key k on connection c: register requests in
\* flight and server-side registrations not yet removed.
LiveRegistrations(k, c) ==
    {i \in Ids :
        /\ invocations[i].key = k
        /\ invocations[i].conn = c
        /\ \/ invocations[i].st = "sent"
           \/ Succeeded(i) /\ removeRequests[i].n = 0 /\ conn[c] = "active"}

\* C6: there is never more than one live registration per (key, connection).
CE_C6_OneLiveRegistration ==
    \A k \in Keys, c \in Conns : Cardinality(LiveRegistrations(k, c)) <= 1

\* C7: the promise of registerListener is never resolved while one of the
\* call's register requests is still in flight.
CE_C7_ResolvedAfterAll ==
    \A k \in Keys :
        deferred[k] = "resolved" => \A i \in Attempts(k) : invocations[i].st # "sent"

\* C8: if a register request of the call failed on a connection that was
\* alive, the promise is rejected.
CE_C8_FailureRejects ==
    \A k \in Keys :
        (\E i \in Attempts(k) : invocations[i].st = "failedAlive") =>
            deferred[k] = "rejected"

\* C9: when a register request of the call fails on a connection that is
\* alive, the key is removed from both tracking tables and, for every
\* registration stored so far in the call's map, the event handler is removed
\* and a remote deregister request is issued (when the codec encodes one).
CE_C9_RollbackComplete ==
    [][\A i \in Ids :
          (invocations[i].st = "sent" /\ invocations'[i].st = "failedAlive") =>
              LET k == invocations[i].key IN
              /\ k \notin activeRegistrations'
              /\ k \notin userKeyInformation'
              /\ \A c \in StoredOn(k) :
                    LET r == connectionsOnUserKey[k][c] IN
                    /\ r \in removedHandlers'
                    /\ \/ removeRequests'[r].n >= 1
                       \/ encodesRemove'[k] = "null"]_vars

\* C10: if a register request of the call succeeded, none failed on a
\* connection that was alive and the user has not deregistered the key, the
\* promise is resolved, the key is in both tracking tables and every
\* successful registration of the call is stored.
T_C10_PartialSuccess ==
    \A k \in Keys :
        (/\ \E i \in Attempts(k) : invocations[i].st = "ok"
         /\ \A i \in Attempts(k) : invocations[i].st # "failedAlive"
         /\ deregResults[k] = <<>>) =>
            /\ deferred[k] = "resolved"
            /\ k \in activeRegistrations
            /\ k \in userKeyInformation
            /\ \A i \in Attempts(k) :
                  invocations[i].st = "ok" =>
                      connectionsOnUserKey[k][invocations[i].conn] = i

\* A call one of whose requests succeeded while another failed on a closed
\* connection: it is resolved and its key is still tracked.
W_C10_SubsetSucceeded ==
    \E k \in Keys :
        /\ \E i \in Attempts(k) : invocations[i].st = "ok"
        /\ \E i \in Attempts(k) : invocations[i].st = "failedDead"
        /\ \A i \in Attempts(k) : invocations[i].st \in {"ok", "failedDead"}
        /\ deferred[k] = "resolved"
        /\ k \in activeRegistrations

\* C11: a deregisterListener call resolves true exactly when its key is
\* tracked at call time and false otherwise (it has no rejecting path); the
\* key is untracked afterwards; a call on an untracked key calls no
\* removeEventHandler and issues no remote request; a call that follows an
\* earlier deregisterListener of the same key (by the user or by the rollback
\* of registerListener) resolves false.
T_C11_DeregisterResult ==
    [][\A k \in Keys :
          deregResults'[k] # deregResults[k] =>
              LET res == deregResults'[k][Len(deregResults'[k])] IN
              /\ deregResults'[k] = Append(deregResults[k], res)
              /\ res = (k \in activeRegistrations)
              /\ k \notin activeRegistrations'
              /\ ~res => /\ removedHandlers' = removedHandlers
                         /\ removeRequests' = removeRequests
                         /\ connectionsOnUserKey' = connectionsOnUserKey
              /\ (\/ Len(deregResults[k]) >= 1
                  \/ \E i \in Attempts(k) : invocations[i].st = "failedAlive") => ~res]_vars

\* The user's deregisterListener call on a key that the rollback of
\* registerListener had already deregistered resolved false.
W_C11_SecondCallFalse ==
    \E k \in Keys :
        /\ deregResults[k] = <<FALSE>>
        /\ \E i \in Attempts(k) : invocations[i].st = "failedAlive"
        /\ \E i \in Attempts(k) : invocations[i].st = "ok" /\ removeRequests[i].n = 1

\* C12: in deregisterListener(userKey) the key is deleted from both tracking
\* tables before the first removeEventHandler call and the first remote
\* deregister request; nothing else runs while the call is on the stack; the
\* key of every issued remote deregister request is absent from both tables,
\* so a reregistration of that key that completes afterwards finds the key
\* absent, stores nothing and is rolled back.
T_C12_DeleteBeforeCleanup ==
    [][/\ (pc # "idle" /\ (removedHandlers' # removedHandlers \/ removeRequests' # removeRequests))
           => (call \notin activeRegistrations /\ call \notin userKeyInformation)
       /\ pc # "idle" => UNCHANGED <<conn, invocations, nextId, nextKey, deferred>>
       /\ \A r \in Ids :
              removeRequests'[r].n >= 1 =>
                  /\ invocations'[r].key \notin activeRegistrations'
                  /\ invocations'[r].key \notin userKeyInformation'
       /\ \A i \in Ids :
              (/\ invocations[i].kind = "reregister"
               /\ invocations[i].st = "sent"
               /\ invocations'[i].st \in {"ok", "rolledBack"}
               /\ \E r \in Ids : /\ invocations[r].key = invocations[i].key
                                 /\ removeRequests[r].n >= 1)
              => /\ invocations'[i].st = "rolledBack"
                 /\ connectionsOnUserKey' = connectionsOnUserKey]_vars

\* A reregistration was in flight while the user's deregisterListener call
\* issued a remote deregister request for the same key and resolved true; it
\* completed afterwards and was rolled back.
W_C12_CompletionSawRemoval ==
    \E i, r \in Ids :
        /\ i # r
        /\ invocations[i].kind = "reregister"
        /\ invocations[i].st = "rolledBack"
        /\ invocations[r].key = invocations[i].key
        /\ removeRequests[r].n >= 1
        /\ deregResults[invocations[i].key] = <<TRUE>>
        /\ pc = "idle"

\* C13 as stated: deregisterListener on a tracked key calls
\* removeEventHandler for each registration stored for the key, issues one
\* remote deregister request for each of them, and leaves no registration
\* stored for the key.
CE_C13_RequestPerRegistration ==
    [][\A k \in Keys :
          (k \in activeRegistrations /\ k \notin activeRegistrations') =>
              /\ \A r \in RegistrationsOnUserKey(k) :
                    /\ r \in removedHandlers'
                    /\ removeRequests'[r].n = removeRequests[r].n + 1
              /\ StoredOn(k)' = {}]_vars

\* C13 as amended: deregisterListener on a tracked key calls
\* removeEventHandler for each registration stored for the key and leaves no
\* registration stored for the key; it issues exactly one remote deregister
\* request for each of them when the key's codec encodes a remove request,
\* and none when the codec returns null; it issues no request for any other
\* registration.
T_C13_CleanupPerRegistration ==
    [][\A k \in Keys :
          (k \in activeRegistrations /\ k \notin activeRegistrations') =>
              /\ \A r \in RegistrationsOnUserKey(k) :
                    /\ r \in removedHandlers'
                    /\ encodesRemove'[k] = "message"
                          => removeRequests'[r].n = removeRequests[r].n + 1
                    /\ encodesRemove'[k] = "null"
                          => removeRequests'[r] = removeRequests[r]
                    /\ encodesRemove'[k] # "unknown"
              /\ \A r \in Ids \ RegistrationsOnUserKey(k) :
                    removeRequests'[r] = removeRequests[r]
              /\ removedHandlers' = removedHandlers \cup RegistrationsOnUserKey(k)
              /\ StoredOn(k)' = {}]_vars

\* The user deregistered a key that had registrations stored on two
\* connections; both handlers were removed and one remote request was issued
\* for each.
W_C13_TwoRegistrationsRemoved ==
    \E k \in Keys : \E i, j \in Attempts(k) :
        /\ i # j
        /\ deregResults[k] = <<TRUE>>
        /\ {i, j} \subseteq removedHandlers
        /\ removeRequests[i].n = 1
        /\ removeRequests[j].n = 1
        /\ StoredOn(k) = {}
        /\ NoFailure

\* C14: the settling of a remote deregister request changes neither the
\* result of any deregisterListener call (already resolved when the request
\* was issued), nor any promise, nor any tracking state; a connectivity-class
\* failure (client not active, I/O, target disconnected) and a success log
\* nothing; any other failure only adds a warning log.
T_C14_RemoveFailureAbsorbed ==
    [][\A r \in Ids :
          removeOutcome'[r] # removeOutcome[r] =>
              LET outcome == removeOutcome'[r][Len(removeOutcome'[r])] IN
              /\ UNCHANGED <<conn, nextKey, encodesRemove, activeRegistrations,
                             connectionsOnUserKey, userKeyInformation, invocations, nextId,
                             deferred, removedHandlers, removeRequests, deregResults>>
              /\ outcome \in ConnectivityErrors \cup {"ok"} => warnings' = warnings
              /\ outcome \notin ConnectivityErrors \cup {"ok"} => warnings' = warnings \cup {r}]_vars

\* The user's deregisterListener resolved true; afterwards one of its remote
\* requests failed with a connectivity error and left no log, and another
\* failed with a different error and left only a warning.
W_C14_FailuresAfterResolve ==
    \E k \in Keys : \E i, j \in Attempts(k) :
        /\ deregResults[k] = <<TRUE>>
        /\ removeOutcome[i] = <<"TargetDisconnectedError">>
        /\ removeOutcome[j] = <<"HazelcastError">>
        /\ warnings = {j}
        /\ deferred[k] = "resolved"

\* C15: every register request and every remote deregister request of the
\* listener service is submitted through invokeUrgent.
CE_C15_AllUrgent ==
    /\ \A i \in Ids : invocations[i].kind # "none" => invocations[i].via = "invokeUrgent"
    /\ \A r \in Ids : removeRequests[r].n >= 1 => removeRequests[r].via = "invokeUrgent"

\* InvocationService.invoke writes a new correlation id into the message of
\* the invocation it is given: a message object carries the id of the last
\* invocation that sent it.
CorrelationIdOf(i) ==
    CHOOSE j \in Ids :
        /\ invocations[j].request = invocations[i].request
        /\ \A h \in Ids : invocations[h].request = invocations[i].request => h <= j

\* C17: every register attempt of registerListener and of reregistration
\* sends its own copy of the key's template register request; the template
\* is never sent, no two attempts share a message, and no two attempts that
\* are pending at the same time carry the same correlation id.
T_C17_FreshCopyPerAttempt ==
    /\ \A i \in Ids :
          invocations[i].kind # "none" =>
              /\ invocations[i].request = Copy(i)
              /\ invocations[i].request # Template(invocations[i].key)
    /\ \A i, j \in Ids :
          (i # j /\ invocations[i].kind # "none" /\ invocations[j].kind # "none") =>
              invocations[i].request # invocations[j].request
    /\ \A i, j \in Ids :
          (i # j /\ invocations[i].st = "sent" /\ invocations[j].st = "sent") =>
              CorrelationIdOf(i) # CorrelationIdOf(j)

\* Three register attempts of one key are pending at the same time: two
\* issued by registerListener and one by a reregistration.
W_C17_ThreePending ==
    \E k \in Keys : \E i, j, h \in Ids :
        /\ i # j
        /\ {invocations[i].key, invocations[j].key, invocations[h].key} = {k}
        /\ {invocations[i].st, invocations[j].st, invocations[h].st} = {"sent"}
        /\ invocations[i].kind = "register"
        /\ invocations[j].kind = "register"
        /\ invocations[h].kind = "reregister"

\* C16: readMany throws a RangeError and invokes nothing whenever
\* sequence < 0, minCount < 0 or minCount > maxCount; for every other
\* input, minCount = 0 and minCount = maxCount included, it submits exactly
\* one read-many invocation carrying its arguments.
T_C16_ReadManyRangeChecks ==
    ring # NotCalled =>
        IF ring.sequence < 0 \/ ring.minCount < 0 \/ ring.minCount > ring.maxCount
        THEN ring.thrown = "RangeError" /\ ring.invoked = <<>>
        ELSE /\ ring.thrown = "none"
             /\ Len(ring.invoked) = 1
             /\ ring.invoked[1] = [codec |-> "RingbufferReadManyCodec",
                                   sequence |-> ring.sequence,
                                   minCount |-> ring.minCount,
                                   maxCount |-> ring.maxCount]

\* readMany was called with minCount = 5 and maxCount = 3 and threw before
\* any invocation.
W_C16_MinAboveMaxRejected ==
    /\ ring.sequence = 0
    /\ ring.minCount = 5
    /\ ring.maxCount = 3
    /\ ring.thrown = "RangeError"
    /\ ring.invoked = <<>>

\* C18: the message encodeRequest returns is marked non-retryable, has
\* message type 590336 and partition id -1, and its initial frame holds
\* returnValueType as an int at offset PARTITION_ID_OFFSET + 4; from the
\* statement that writes returnValueType on, no later statement (setting the
\* message type and the partition id included) changes that int.
T_C18_EncodeRequestHeader ==
    /\ codec.pc = "returned" =>
          /\ codec.retryable = FALSE
          /\ Len(codec.content) = PARTITION_ID_OFFSET + 8
          /\ DecodeInt(codec.content, TYPE_FIELD_OFFSET) = 590336
          /\ DecodeInt(codec.content, PARTITION_ID_OFFSET) = 0 - 1
          /\ DecodeInt(codec.content, PARTITION_ID_OFFSET + 4) = codec.returnValueType
          /\ codec.frames[1] = [frame |-> "initialFrame", of |-> "message"]
    /\ codec.pc \in {"addFrame", "setMessageType", "setPartitionId", "encodeGroupId",
                     "encodeName", "encodeFunction"} =>
          /\ Len(codec.content) = PARTITION_ID_OFFSET + 8
          /\ DecodeInt(codec.content, PARTITION_ID_OFFSET + 4) = codec.returnValueType

\* encodeRequest returned a message for returnValueType 258 built in a
\* buffer that held 255 in every byte.
W_C18_Encoded258 ==
    /\ codec.pc = "returned"
    /\ codec.returnValueType = 258
    /\ codec.content[PARTITION_ID_OFFSET + 4 + 1] = 2
    /\ codec.content[PARTITION_ID_OFFSET + 4 + 2] = 1
    /\ codec.content[5] = 255
    /\ Len(codec.frames) = 4

\* The register invocations issued by the current step for key k on
\* connection c.
IssuedNow(k, c) ==
    {i \in (nextId + 1)..nextId' :
        /\ invocations'[i].key = k
        /\ invocations'[i].conn = c
        /\ invocations'[i].kind = "reregister"
        /\ invocations'[i].st = "sent"}

\* C19: the handling of connectionAdded(c) issues exactly one register
\* invocation bound to c for every tracked key with no registration stored
\* on c, none for a key with a registration stored on c and none bound to
\* another connection; a reregistration that succeeds while its key is still
\* tracked is stored under (key, c).
T_C19_ReregisterOncePerMissingKey ==
    [][/\ \A c \in Conns :
             (\/ conn[c] # "active" /\ conn'[c] = "active"
              \/ \E k \in Keys : IssuedNow(k, c) # {})
             => /\ \A k \in Keys :
                       Cardinality(IssuedNow(k, c)) =
                           IF k \in activeRegistrations /\ connectionsOnUserKey[k][c] = Undefined
                           THEN 1
                           ELSE 0
                /\ \A i \in (nextId + 1)..nextId' : invocations'[i].conn = c
       /\ \A i \in Ids :
             (/\ invocations[i].kind = "reregister"
              /\ invocations[i].st = "sent"
              /\ invocations'[i].st \in {"ok", "rolledBack"}
              /\ invocations[i].key \in userKeyInformation)
             => /\ invocations'[i].st = "ok"
                /\ connectionsOnUserKey'[invocations[i].key][invocations[i].conn] = i]_vars

\* connectionAdded(c) was handled while key 1 had a registration stored on c
\* and key 2 had none: one register invocation was issued, for key 2, and
\* its registration is stored on c.
W_C19_OnlyMissingKeyReregistered ==
    \E c \in Conns : \E i, j \in Ids : \E k1, k2 \in Keys :
        /\ k1 # k2
        /\ i < j
        /\ invocations[i] = [key |-> k1, conn |-> c, kind |-> "register", st |-> "ok",
                             via |-> "invokeUrgent", request |-> Copy(i)]
        /\ connectionsOnUserKey[k1][c] = i
        /\ invocations[j].kind = "reregister"
        /\ invocations[j].key = k2
        /\ invocations[j].conn = c
        /\ invocations[j].st = "ok"
        /\ connectionsOnUserKey[k2][c] = j
        /\ \A h \in Ids : invocations[h].kind = "reregister" => invocations[h].key = k2

\* C20: a failed reregistration attempt is only logged: the step changes no
\* tracking table, no stored registration, no promise of a caller, no event
\* handler and no other invocation, and issues no remote request; a
\* reregistration of another key on the same connection that succeeds
\* afterwards is still stored.
T_C20_ReregisterFailureLogged ==
    [][/\ \A i \in Ids :
             (/\ invocations[i].kind = "reregister"
              /\ invocations[i].st = "sent"
              /\ invocations'[i].st \notin {"sent", "ok", "rolledBack"})
             => /\ invocations' = [invocations EXCEPT ![i].st = "logged"]
                /\ UNCHANGED <<conn, nextKey, activeRegistrations, userKeyInformation,
                               connectionsOnUserKey, nextId, deferred, deregResults,
                               removedHandlers, removeRequests, encodesRemove>>
       /\ \A i, j \in Ids :
             (/\ invocations[i].kind = "reregister"
              /\ invocations[i].st = "logged"
              /\ invocations[i].key \in userKeyInformation
              /\ invocations[j].kind = "reregister"
              /\ invocations[j].conn = invocations[i].conn
              /\ invocations[j].key # invocations[i].key
              /\ invocations[j].key \in userKeyInformation
              /\ invocations[j].st = "sent"
              /\ invocations'[j].st \in {"ok", "rolledBack"})
             => connectionsOnUserKey'[invocations[j].key][invocations[j].conn] = j]_vars

\* connectionAdded(c) issued a reregistration for each of two keys; the one
\* for one key failed and was logged, the one for the other key succeeded
\* and is stored; both keys are still tracked and no caller's promise was
\* rejected.
W_C20_OtherKeyStored ==
    \E i, j \in Ids :
        /\ invocations[i].kind = "reregister"
        /\ invocations[j].kind = "reregister"
        /\ invocations[i].conn = invocations[j].conn
        /\ invocations[i].key # invocations[j].key
        /\ invocations[i].st = "logged"
        /\ invocations[j].st = "ok"
        /\ connectionsOnUserKey[invocations[j].key][invocations[j].conn] = j
        /\ {invocations[i].key, invocations[j].key} \subseteq activeRegistrations
        /\ {invocations[i].key, invocations[j].key} \subseteq userKeyInformation
        /\ \A k \in Keys : deferred[k] # "rejected"

\* The event handler of register request i is live in the invocation
\* service: the request succeeded and removeEventHandler was never called
\* with its correlation id.
HandlerLive(i) == Succeeded(i) /\ i \notin removedHandlers

\* C21, for the register requests of reregistration: once
\* deregisterListener(key) has run and every invocation has settled, no
\* event handler is live for any reregistration request issued for the key,
\* also not for one that succeeded after deregisterListener ran.
CE_C21_NoHandlerLeft ==
    \A k \in 1..nextKey :
        (k \notin activeRegistrations /\ Settled) =>
            \A i \in Ids :
                (invocations[i].key = k /\ invocations[i].kind = "reregister")
                    => ~HandlerLive(i)

\* C22: once all the register invocations of a registerListener call have
\* settled, the call's promise is resolved or rejected.
CE_C22_CallSettles ==
    \A k \in 1..nextKey :
        (\A i \in Attempts(k) : invocations[i].st # "sent") =>
            deferred[k] \in {"resolved", "rejected"}

\* C23: whenever control can be yielded (no method body is running), a key
\* is in activeRegistrations exactly when it is in userKeyInformation, so
\* every key a reregistration pass visits has its RegistrationKey.
T_C23_TablesInStep ==
    Idle =>
        /\ activeRegistrations = userKeyInformation
        /\ \A c \in Conns : KeysToReregister(c) \subseteq userKeyInformation

\* One key was deregistered by the user and another is still tracked and
\* was visited by a reregistration pass.
W_C23_OneKeyLeft ==
    \E k1, k2 \in Keys :
        /\ deregResults[k1] = <<TRUE>>
        /\ activeRegistrations = {k2}
        /\ userKeyInformation = {k2}
        /\ \E i \in Ids : invocations[i].kind = "reregister" /\ invocations[i].key = k2
        /\ Idle

\* C24: no physical registration ever has more than one remote deregister
\* request issued for it, whichever of deregisterListener, the rollback of
\* registerListener and the race branch of reregistration issue them.
T_C24_AtMostOneRemoveRequest ==
    \A r \in Ids : removeRequests[r].n <= 1

\* In one run, the rollback of registerListener issued the remote request
\* for a stored registration and the race branch of reregistration issued
\* the one for a late registration of the same key, one request each.
W_C24_TwoPathsOnce ==
    \E i, j, h \in Ids :
        /\ invocations[i].key = invocations[j].key
        /\ invocations[h].key = invocations[j].key
        /\ invocations[i].kind = "register"
        /\ invocations[i].st = "ok"
        /\ removeRequests[i].n = 1
        /\ invocations[h].kind = "register"
        /\ invocations[h].st = "failedAlive"
        /\ invocations[j].kind = "reregister"
        /\ invocations[j].st = "rolledBack"
        /\ removeRequests[j].n = 1

\* C25: a registration stored under (key, c) was created by a successful
\* register invocation of that key bound to c, so c is its subscriber; every
\* remote deregister request is bound to the subscriber connection of the
\* registration it removes.
T_C25_BoundToSubscriber ==
    /\ \A k \in Keys, c \in Conns :
          connectionsOnUserKey[k][c] # Undefined =>
              LET r == connectionsOnUserKey[k][c] IN
              /\ invocations[r].key = k
              /\ invocations[r].conn = c
              /\ invocations[r].st = "ok"
              /\ Subscriber(r) = c
    /\ \A r \in Ids :
          removeRequests[r].n >= 1 => removeRequests[r].conn = invocations[r].conn

\* A remote deregister request was issued for a registration of the third
\* connection while the first connection was still active, and another
\* registration is still stored on the first connection.
W_C25_RequestOnThirdConnection ==
    \E r, q \in Ids :
        /\ removeRequests[r].n = 1
        /\ removeRequests[r].conn = 3
        /\ invocations[r].conn = 3
        /\ conn[1] = "active"
        /\ \E k \in Keys : connectionsOnUserKey[k][1] = q

\* C26: readOne throws a RangeError and invokes nothing when sequence < 0;
\* for every sequence >= 0 it submits exactly one read-one invocation for
\* that sequence and, when the invocation succeeds, returns the object
\* decoded from its response.
T_C26_ReadOneRangeCheck ==
    one # OneNotCalled =>
        IF one.sequence < 0
        THEN one.thrown = "RangeError" /\ one.invoked = <<>> /\ one.returned = "none"
        ELSE /\ one.thrown = "none"
             /\ one.invoked = <<[codec |-> "RingbufferReadOneCodec",
                                 sequence |-> one.sequence]>>
             /\ one.response \in Datas => one.returned = ToObject(one.response)
             /\ one.response = "failed" => one.returned = "rejected"

\* readOne(0) submitted one invocation and returned the item decoded from
\* its response.
W_C26_SequenceZeroRead ==
    /\ one.sequence = 0
    /\ one.response = "data:2"
    /\ one.thrown = "none"
    /\ Len(one.invoked) = 1
    /\ one.returned = "item 2"

\* C27: encodeRequest appends its frames in the order initial frame, group
\* id, name, function, the initial frame first at every point; decodeResponse
\* takes exactly one frame with nextFrame, the first of the message, and
\* returns the long at offset RESPONSE_BACKUP_ACKS_OFFSET + 1 of it.
T_C27_FrameOrderAndResponse ==
    /\ codec.frames # <<>> => codec.frames[1] = [frame |-> "initialFrame", of |-> "message"]
    /\ codec.pc = "returned" =>
          codec.frames = <<[frame |-> "initialFrame", of |-> "message"],
                           [frame |-> "groupId", of |-> codec.groupId],
                           [frame |-> "name", of |-> codec.name],
                           [frame |-> "function", of |-> codec.function]>>
    /\ decoder.pc \in {"decodeLong", "returned"} =>
          /\ decoder.cursor = 1
          /\ decoder.initialFrame = decoder.message[1]
    /\ decoder.pc = "returned" =>
          /\ decoder.response = DecodeLong(decoder.message[1], RESPONSE_BACKUP_ACKS_OFFSET + 1)
          /\ decoder.response = decoder.value

\* decodeResponse returned the long (258, 1) from the initial frame of a
\* two-frame response with a backup acks byte of 1, after encodeRequest had
\* returned a four-frame message.
W_C27_DecodedTwoFrameResponse ==
    /\ decoder.pc = "returned"
    /\ decoder.response = [low |-> 258, high |-> 1]
    /\ Len(decoder.message) = 2
    /\ decoder.cursor = 1
    /\ decoder.message[1][RESPONSE_BACKUP_ACKS_OFFSET + 1] = 1
    /\ codec.pc = "returned"
    /\ Len(codec.frames) = 4

\* C28: build throws a HazelcastError wrapping the RangeError when the SSL
\* section has both sslOptions and factory, or a factory with no path and an
\* exportedName other than BasicSSLOptionsFactory; with only sslOptions it
\* returns a configuration holding those options and no factory; with only
\* a factory that has a path or the basic factory's exportedName it returns
\* one holding that factory and no options; with no loaded JSON it returns
\* the default configuration.
T_C28_SslSourceExclusive ==
    config.called =>
        LET json == config.json
            noPath == json.path \in {"undefined", "null"}
            basic == json.exportedName = "BasicSSLOptionsFactory" IN
        /\ ~json.loaded =>
              /\ config.thrown = "none"
              /\ config.returned
              /\ config.ssl = DefaultSSL
        /\ (json.ssl /\ json.sslOptions # "absent" /\ json.factory) =>
              /\ config.thrown = "HazelcastError"
              /\ config.cause = "RangeError"
              /\ ~config.returned
        /\ (json.ssl /\ json.sslOptions = "absent" /\ json.factory /\ noPath /\ ~basic) =>
              /\ config.thrown = "HazelcastError"
              /\ config.cause = "RangeError"
              /\ ~config.returned
        /\ (json.ssl /\ json.sslOptions # "absent" /\ ~json.factory) =>
              /\ config.thrown = "none"
              /\ config.returned
              /\ config.ssl.sslOptions = json.sslOptions
              /\ config.ssl.sslOptionsFactoryConfig = <<>>
              /\ config.ssl.sslOptionsFactoryProperties = "null"
        /\ (json.ssl /\ json.sslOptions = "absent" /\ json.factory /\ (~noPath \/ basic)) =>
              /\ config.thrown = "none"
              /\ config.returned
              /\ config.ssl.sslOptions = "null"
              /\ config.ssl.sslOptionsFactoryConfig = <<json.path, json.exportedName>>
              /\ config.ssl.sslOptionsFactoryProperties # "null"

\* build failed on an SSL section that has sslOptions and a factory with a
\* path.
W_C28_BothSourcesRejected ==
    /\ config.called
    /\ config.json.sslOptions = "{ca}"
    /\ config.json.factory
    /\ config.json.path = "./factory.js"
    /\ config.thrown = "HazelcastError"
    /\ config.cause = "RangeError"
    /\ ~config.returned

\* C29: encodeInvokeOnRandomTarget calls encodeRequest of the given codec
\* once with the given arguments; when that returns, it submits one
\* invocation, of the returned message and through invokeOnRandomTarget; when
\* that throws, it submits none.  getPartitionKey throws
\* UnsupportedOperationError.
T_C29_EncodeOnceInvokeOnRandomTarget ==
    /\ cp.method = "encodeInvokeOnRandomTarget" =>
          /\ cp.encodeRequests = <<<<cp.codec, cp.codecArguments>>>>
          /\ Len(cp.invoked) <= 1
          /\ \A n \in 1..Len(cp.invoked) :
                /\ cp.invoked[n].via = "invokeOnRandomTarget"
                /\ cp.invoked[n].message = ClientMessageOf(cp.codec, cp.codecArguments)
          /\ cp.thrown = "none" => Len(cp.invoked) = 1
          /\ cp.thrown # "none" => cp.invoked = <<>>
    /\ cp.method = "getPartitionKey" =>
          /\ cp.thrown = "UnsupportedOperationError"
          /\ cp.encodeRequests = <<>>
          /\ cp.invoked = <<>>

\* encodeRequest threw on a call with three arguments.
W_C29_EncodeRequestThrew ==
    /\ cp.method = "encodeInvokeOnRandomTarget"
    /\ Len(cp.codecArguments) = 3
    /\ cp.thrown = "encodeRequest"
    /\ Len(cp.encodeRequests) = 1

====
